---------------------------- MODULE Spec2Model ----------------------------
(***************************************************************************)
(* QUIC version identity, wire labels, textual parsing/formatting and the  *)
(* enable/disable policy of quic/core/quic_versions.cc.                    *)
(*                                                                         *)
(* Strings are sequences of one-character strings.  A 32-bit value (a      *)
(* label, a tag) is the tuple of its four bytes, most significant first,   *)
(* which is also the order of a label's bytes on the wire.  A version      *)
(* identity is a record [handshake_protocol, transport_version].           *)
(***************************************************************************)
EXTENDS Integers, Sequences, FiniteSets, TLC

VARIABLES
  disable_flag,   \* the reloadable flags quic_disable_version_* (flag store)
  quic_bug,       \* QUIC_BUG diagnostic raised by the latest call ("" = none)
  last,           \* the latest completed registry call: arguments and result
  q_pc,           \* position of the running CurrentSupportedVersions() query
  q_filtered,     \* its filtered_versions so far
  q_observed,     \* the toggle values it has read so far, in table order
  grease_off,     \* FLAGS_quic_disable_version_negotiation_grease_randomness
  c_pc,           \* codec call position
  c_version,      \* identity passed to the latest CreateQuicVersionLabel
  c_draw,         \* bytes handed out by QuicRandom for the latest call
  c_rand_calls,   \* number of RandBytes calls made by the latest call
  c_label,        \* label returned by the latest CreateQuicVersionLabel
  c_parsed,       \* identity returned by the latest ParseQuicVersionLabel
  t_pc,           \* text call position
  t_in,           \* arguments of the latest text call
  t_out,          \* result of the latest text call
  t_return        \* the return statement the latest text call left by

registry_vars == <<disable_flag, quic_bug, last, q_pc, q_filtered, q_observed>>
codec_vars == <<grease_off, c_pc, c_version, c_draw, c_rand_calls, c_label, c_parsed>>
text_vars == <<t_pc, t_in, t_out, t_return>>
vars == <<registry_vars, codec_vars, text_vars>>

----------------------------------------------------------------------------
(* Enumerations of quic_versions.h *)

PROTOCOL_UNSUPPORTED == "PROTOCOL_UNSUPPORTED"
PROTOCOL_QUIC_CRYPTO == "PROTOCOL_QUIC_CRYPTO"
PROTOCOL_TLS1_3 == "PROTOCOL_TLS1_3"

QUIC_VERSION_UNSUPPORTED == 0
QUIC_VERSION_43 == 43
QUIC_VERSION_46 == 46
QUIC_VERSION_50 == 50
QUIC_VERSION_51 == 51
QUIC_VERSION_IETF_DRAFT_29 == 73
QUIC_VERSION_RESERVED_FOR_NEGOTIATION == 999

ParsedQuicVersion(handshake_protocol, transport_version) ==
  [handshake_protocol |-> handshake_protocol,
   transport_version |-> transport_version]

Draft29 == ParsedQuicVersion(PROTOCOL_TLS1_3, QUIC_VERSION_IETF_DRAFT_29)
T051 == ParsedQuicVersion(PROTOCOL_TLS1_3, QUIC_VERSION_51)
Q050 == ParsedQuicVersion(PROTOCOL_QUIC_CRYPTO, QUIC_VERSION_50)
Q046 == ParsedQuicVersion(PROTOCOL_QUIC_CRYPTO, QUIC_VERSION_46)
Q043 == ParsedQuicVersion(PROTOCOL_QUIC_CRYPTO, QUIC_VERSION_43)
ReservedForNegotiation ==
  ParsedQuicVersion(PROTOCOL_UNSUPPORTED, QUIC_VERSION_RESERVED_FOR_NEGOTIATION)
UnsupportedQuicVersion ==
  ParsedQuicVersion(PROTOCOL_UNSUPPORTED, QUIC_VERSION_UNSUPPORTED)

\* SupportedVersions(): the fixed table, in preference order.
SupportedVersions == <<Draft29, T051, Q050, Q046, Q043>>

\* SupportedTransportVersions(): the transport ids of the table.
SupportedTransportVersions ==
  <<QUIC_VERSION_IETF_DRAFT_29, QUIC_VERSION_51, QUIC_VERSION_50,
    QUIC_VERSION_46, QUIC_VERSION_43>>

AllSupportedVersions == SupportedVersions

\* Identities a caller can pass: the table and the two sentinels.
Identities ==
  {SupportedVersions[i] : i \in 1..Len(SupportedVersions)}
    \cup {ReservedForNegotiation, UnsupportedQuicVersion}

IsKnown(version) == version.transport_version # QUIC_VERSION_UNSUPPORTED

Range(s) == {s[i] : i \in 1..Len(s)}

----------------------------------------------------------------------------
(* 32-bit arithmetic, byte by byte *)

RECURSIVE ByteAnd(_, _)
ByteAnd(x, y) ==
  IF x = 0 \/ y = 0 THEN 0
  ELSE (x % 2) * (y % 2) + 2 * ByteAnd(x \div 2, y \div 2)

RECURSIVE ByteOr(_, _)
ByteOr(x, y) ==
  IF x = 0 THEN y
  ELSE IF y = 0 THEN x
  ELSE (IF x % 2 = 1 \/ y % 2 = 1 THEN 1 ELSE 0)
         + 2 * ByteOr(x \div 2, y \div 2)

\* x & y and x | y on 32-bit values.
BitAnd(x, y) == [i \in 1..4 |-> ByteAnd(x[i], y[i])]
BitOr(x, y) == [i \in 1..4 |-> ByteOr(x[i], y[i])]

\* The 32-bit value 0.
Zero32 == <<0, 0, 0, 0>>

\* MakeQuicTag(a, b, c, d): a | b << 8 | c << 16 | d << 24.
MakeQuicTag(a, b, c, d) == <<d % 256, c % 256, b % 256, a % 256>>

\* On-the-wire order of the bytes is a, b, c, d.
MakeVersionLabel(a, b, c, d) == MakeQuicTag(d, c, b, a)

----------------------------------------------------------------------------
(* The flag store *)

FlagNames ==
  {"quic_disable_version_draft_29", "quic_disable_version_t051",
   "quic_disable_version_q050", "quic_disable_version_q046",
   "quic_disable_version_q043"}

GetQuicReloadableFlag(name) == disable_flag[name]

NoBug == ""

----------------------------------------------------------------------------
(* Characters: the printable ASCII range, code 32 (space) to 126 (~). Code  *)
(* 96 has no TLA+ string literal and is written "GRAVE".                   *)

Ascii ==
  <<" ", "!", "\"", "#", "$", "%", "&", "'", "(", ")", "*", "+", ",", "-",
    ".", "/", "0", "1", "2", "3", "4", "5", "6", "7", "8", "9", ":", ";",
    "<", "=", ">", "?", "@", "A", "B", "C", "D", "E", "F", "G", "H", "I",
    "J", "K", "L", "M", "N", "O", "P", "Q", "R", "S", "T", "U", "V", "W",
    "X", "Y", "Z", "[", "\\", "]", "^", "_", "GRAVE", "a", "b", "c", "d", "e",
    "f", "g", "h", "i", "j", "k", "l", "m", "n", "o", "p", "q", "r", "s",
    "t", "u", "v", "w", "x", "y", "z", "{", "|", "}", "~">>

IsPrint(b) == b >= 32 /\ b <= 126
Chr(b) == Ascii[b - 31]
\* The code of each character, tabulated once.
OrdOf ==
  [c \in {Ascii[i] : i \in 1..Len(Ascii)} |->
     CHOOSE b \in 32..126 : Ascii[b - 31] = c]
Ord(c) == OrdOf[c]

HexDigits ==
  <<"0", "1", "2", "3", "4", "5", "6", "7", "8", "9",
    "a", "b", "c", "d", "e", "f">>

\* absl::BytesToHexString of one byte: two lowercase hex digits.
ByteToHex(b) == <<HexDigits[(b \div 16) + 1], HexDigits[(b % 16) + 1]>>

\* Byte i (0 = least significant) of a 32-bit value.
ByteOf(x, i) == x[4 - i]

\* QuicheEndian::HostToNet32 on a little-endian host: the bytes reversed.
HostToNet32(x) ==
  MakeQuicTag(ByteOf(x, 3), ByteOf(x, 2), ByteOf(x, 1), ByteOf(x, 0))

\* QuicTagToString(tag): the four bytes, least significant first, as
\* characters when all are printable (a final 0x00 or 0xff counts as a
\* space), else the hex dump of the tag's bytes in memory order.
QuicTagToString(tag) ==
  IF tag = Zero32 THEN <<"0">>
  ELSE
    LET raw == [i \in 1..4 |-> ByteOf(tag, i - 1)]
        chars == [i \in 1..4 |->
                    IF i = 4 /\ (raw[i] = 0 \/ raw[i] = 255)
                    THEN 32 ELSE raw[i]]
    IN IF \A i \in 1..4 : IsPrint(chars[i])
       THEN [i \in 1..4 |-> Chr(chars[i])]
       ELSE ByteToHex(raw[1]) \o ByteToHex(raw[2])
              \o ByteToHex(raw[3]) \o ByteToHex(raw[4])

QuicVersionLabelToString(version_label) ==
  QuicTagToString(HostToNet32(version_label))

----------------------------------------------------------------------------
(* VersionRegistry *)

\* Mutation: the Q050 branch writes the flag of Q046.
SetVersionFlag_WrongFlag(version, should_enable) ==
  LET disable == ~should_enable
      Set(name) ==
        /\ disable_flag' = [disable_flag EXCEPT ![name] = disable]
        /\ quic_bug' = NoBug
  IN IF version = Draft29 THEN Set("quic_disable_version_draft_29")
     ELSE IF version = T051 THEN Set("quic_disable_version_t051")
     ELSE IF version = Q050 THEN Set("quic_disable_version_q046")
     ELSE IF version = Q046 THEN Set("quic_disable_version_q046")
     ELSE IF version = Q043 THEN Set("quic_disable_version_q043")
     ELSE /\ quic_bug' = (IF should_enable THEN "Cannot enable version"
                                           ELSE "Cannot disable version")
          /\ UNCHANGED disable_flag

\* Mutation: an identity without a flag is ignored without a diagnostic.
SetVersionFlag_Silent(version, should_enable) ==
  LET disable == ~should_enable
      Set(name) ==
        /\ disable_flag' = [disable_flag EXCEPT ![name] = disable]
        /\ quic_bug' = NoBug
  IN IF version = Draft29 THEN Set("quic_disable_version_draft_29")
     ELSE IF version = T051 THEN Set("quic_disable_version_t051")
     ELSE IF version = Q050 THEN Set("quic_disable_version_q050")
     ELSE IF version = Q046 THEN Set("quic_disable_version_q046")
     ELSE IF version = Q043 THEN Set("quic_disable_version_q043")
     ELSE /\ quic_bug' = NoBug
          /\ UNCHANGED disable_flag

\* The effect of SetVersionFlag on the flag store and the diagnostic.
SetVersionFlag(version, should_enable) ==
  LET enable == should_enable
      disable == ~should_enable
      Set(name) ==
        /\ disable_flag' = [disable_flag EXCEPT ![name] = disable]
        /\ quic_bug' = NoBug
  IN IF version = Draft29 THEN Set("quic_disable_version_draft_29")
     ELSE IF version = T051 THEN Set("quic_disable_version_t051")
     ELSE IF version = Q050 THEN Set("quic_disable_version_q050")
     ELSE IF version = Q046 THEN Set("quic_disable_version_q046")
     ELSE IF version = Q043 THEN Set("quic_disable_version_q043")
     ELSE /\ quic_bug' = (IF enable THEN "Cannot enable version"
                                    ELSE "Cannot disable version")
          /\ UNCHANGED disable_flag

\* Mutation: the negation of the flag test is lost.
FilterOneVersion_Inverted(version) ==
  LET Guarded(name) ==
        [keep |-> GetQuicReloadableFlag(name),
         read |-> <<GetQuicReloadableFlag(name)>>, bug |-> NoBug]
  IN IF version = Draft29 THEN Guarded("quic_disable_version_draft_29")
     ELSE IF version = T051 THEN Guarded("quic_disable_version_t051")
     ELSE IF version = Q050 THEN Guarded("quic_disable_version_q050")
     ELSE IF version = Q046 THEN Guarded("quic_disable_version_q046")
     ELSE IF version = Q043 THEN Guarded("quic_disable_version_q043")
     ELSE [keep |-> TRUE, read |-> <<>>,
           bug |-> "QUIC version has no flag protection"]

\* One iteration of the loop of FilterSupportedVersions: whether the
\* version is pushed, the toggle value read (if any) and the diagnostic.
FilterOneVersion(version) ==
  LET Guarded(name) ==
        [keep |-> ~GetQuicReloadableFlag(name),
         read |-> <<GetQuicReloadableFlag(name)>>, bug |-> NoBug]
  IN IF version = Draft29 THEN Guarded("quic_disable_version_draft_29")
     ELSE IF version = T051 THEN Guarded("quic_disable_version_t051")
     ELSE IF version = Q050 THEN Guarded("quic_disable_version_q050")
     ELSE IF version = Q046 THEN Guarded("quic_disable_version_q046")
     ELSE IF version = Q043 THEN Guarded("quic_disable_version_q043")
     ELSE [keep |-> TRUE, read |-> <<>>,
           bug |-> "QUIC version has no flag protection"]

RECURSIVE FilterFrom(_, _, _)
FilterFrom(versions, i, acc) ==
  IF i > Len(versions) THEN acc
  ELSE LET r == FilterOneVersion(versions[i])
       IN FilterFrom(versions, i + 1,
            [versions |-> IF r.keep THEN Append(acc.versions, versions[i])
                                    ELSE acc.versions,
             bug |-> IF r.bug # NoBug THEN r.bug ELSE acc.bug])

\* FilterSupportedVersions run to completion against the current flags.
FilterSupportedVersions(versions) ==
  FilterFrom(versions, 1, [versions |-> <<>>, bug |-> NoBug])

CurrentSupportedVersions == FilterSupportedVersions(AllSupportedVersions)

QuicVersionIsEnabled(version) ==
  version \in Range(CurrentSupportedVersions.versions)

\* The loop shared by the four *SupportedVersionsWith* functions.
RECURSIVE SelectHandshake(_, _)
SelectHandshake(versions, handshake_protocol) ==
  IF versions = <<>> THEN <<>>
  ELSE IF Head(versions).handshake_protocol = handshake_protocol
       THEN <<Head(versions)>>
              \o SelectHandshake(Tail(versions), handshake_protocol)
       ELSE SelectHandshake(Tail(versions), handshake_protocol)

AllSupportedVersionsWithQuicCrypto ==
  LET versions == SelectHandshake(AllSupportedVersions, PROTOCOL_QUIC_CRYPTO)
  IN [versions |-> versions,
      bug |-> IF versions = <<>> THEN "No version with QUIC crypto found."
                                 ELSE NoBug]

CurrentSupportedVersionsWithQuicCrypto ==
  LET versions == SelectHandshake(CurrentSupportedVersions.versions,
                                  PROTOCOL_QUIC_CRYPTO)
  IN [versions |-> versions,
      bug |-> IF versions = <<>> THEN "No version with QUIC crypto found."
                                 ELSE NoBug]

AllSupportedVersionsWithTls ==
  LET versions == SelectHandshake(AllSupportedVersions, PROTOCOL_TLS1_3)
  IN [versions |-> versions,
      bug |-> IF versions = <<>> THEN "No version with TLS handshake found."
                                 ELSE NoBug]

\* Mutation: the loop runs over AllSupportedVersions().
CurrentSupportedVersionsWithTls_All ==
  LET versions == SelectHandshake(AllSupportedVersions, PROTOCOL_TLS1_3)
  IN [versions |-> versions,
      bug |-> IF versions = <<>> THEN "No version with TLS handshake found."
                                 ELSE NoBug]

CurrentSupportedVersionsWithTls ==
  LET versions == SelectHandshake(CurrentSupportedVersions.versions,
                                  PROTOCOL_TLS1_3)
  IN [versions |-> versions,
      bug |-> IF versions = <<>> THEN "No version with TLS handshake found."
                                 ELSE NoBug]

----------------------------------------------------------------------------
(* VersionLabelCodec *)

\* The masks of CreateRandomVersionLabelForNegotiation, byte by byte.
kGreaseHighNibbles == MakeQuicTag(240, 240, 240, 240)   \* 0xf0f0f0f0
kGreaseLowNibbles == MakeQuicTag(10, 10, 10, 10)        \* 0x0a0a0a0a

\* Mutation: the two masks are forgotten.
CreateRandomVersionLabelForNegotiation_NoMask(rand) ==
  LET consult == ~grease_off
      result == IF consult THEN rand
                ELSE MakeVersionLabel(209, 87, 56, 63)
  IN [label |-> result, rand_calls |-> IF consult THEN 1 ELSE 0]

\* Mutation: the low nibbles are cleared but 0x0a0a0a0a is not or-ed in.
CreateRandomVersionLabelForNegotiation_NoOr(rand) ==
  LET consult == ~grease_off
      result == IF consult THEN rand
                ELSE MakeVersionLabel(209, 87, 56, 63)
  IN [label |-> BitAnd(result, kGreaseHighNibbles),
      rand_calls |-> IF consult THEN 1 ELSE 0]

\* rand: the four bytes QuicRandom would hand out if asked.
CreateRandomVersionLabelForNegotiation(rand) ==
  LET consult == ~grease_off
      result == IF consult THEN rand
                ELSE MakeVersionLabel(209, 87, 56, 63)  \* 0xd1 0x57 0x38 0x3f
  IN [label |-> BitOr(BitAnd(result, kGreaseHighNibbles), kGreaseLowNibbles),
      rand_calls |-> IF consult THEN 1 ELSE 0]

CreateQuicVersionLabel(parsed_version, rand) ==
  IF parsed_version = Draft29
  THEN [label |-> MakeVersionLabel(255, 0, 0, 29),
        rand_calls |-> 0, bug |-> NoBug]
  ELSE IF parsed_version = T051
  THEN [label |-> MakeVersionLabel(Ord("T"), Ord("0"), Ord("5"), Ord("1")),
        rand_calls |-> 0, bug |-> NoBug]
  ELSE IF parsed_version = Q050
  THEN [label |-> MakeVersionLabel(Ord("Q"), Ord("0"), Ord("5"), Ord("0")),
        rand_calls |-> 0, bug |-> NoBug]
  ELSE IF parsed_version = Q046
  THEN [label |-> MakeVersionLabel(Ord("Q"), Ord("0"), Ord("4"), Ord("6")),
        rand_calls |-> 0, bug |-> NoBug]
  ELSE IF parsed_version = Q043
  THEN [label |-> MakeVersionLabel(Ord("Q"), Ord("0"), Ord("4"), Ord("3")),
        rand_calls |-> 0, bug |-> NoBug]
  ELSE IF parsed_version = ReservedForNegotiation
  THEN LET r == CreateRandomVersionLabelForNegotiation(rand)
       IN [label |-> r.label, rand_calls |-> r.rand_calls, bug |-> NoBug]
  ELSE [label |-> Zero32, rand_calls |-> 0, bug |-> "Unsupported version"]

\* The label of a table entry (no random bytes are ever asked for).
LabelOf(version) == CreateQuicVersionLabel(version, Zero32).label

RECURSIVE ParseLabelFrom(_, _, _)
ParseLabelFrom(versions, i, version_label) ==
  IF i > Len(versions) THEN UnsupportedQuicVersion
  ELSE IF version_label = LabelOf(versions[i]) THEN versions[i]
  ELSE ParseLabelFrom(versions, i + 1, version_label)

\* Mutation: only the versions that are enabled are searched.
ParseQuicVersionLabel_Enabled(version_label) ==
  ParseLabelFrom(CurrentSupportedVersions.versions, 1, version_label)

ParseQuicVersionLabel(version_label) ==
  ParseLabelFrom(AllSupportedVersions, 1, version_label)

CreateQuicVersionLabelVector(versions) ==
  [i \in 1..Len(versions) |-> LabelOf(versions[i])]

----------------------------------------------------------------------------
(* Text: formatting *)

\* The decimal rendering of a natural number (QuicheStrCat of an int).
RECURSIVE IntToString(_)
IntToString(n) ==
  IF n < 10 THEN <<Chr(Ord("0") + n)>>
  ELSE IntToString(n \div 10) \o <<Chr(Ord("0") + (n % 10))>>

QuicVersionToString(transport_version) ==
  CASE transport_version = QUIC_VERSION_43 ->
      <<"Q", "U", "I", "C", "_", "V", "E", "R", "S", "I", "O", "N", "_", "4",
        "3">>
    [] transport_version = QUIC_VERSION_46 ->
      <<"Q", "U", "I", "C", "_", "V", "E", "R", "S", "I", "O", "N", "_", "4",
        "6">>
    [] transport_version = QUIC_VERSION_50 ->
      <<"Q", "U", "I", "C", "_", "V", "E", "R", "S", "I", "O", "N", "_", "5",
        "0">>
    [] transport_version = QUIC_VERSION_51 ->
      <<"Q", "U", "I", "C", "_", "V", "E", "R", "S", "I", "O", "N", "_", "5",
        "1">>
    [] transport_version = QUIC_VERSION_IETF_DRAFT_29 ->
      <<"Q", "U", "I", "C", "_", "V", "E", "R", "S", "I", "O", "N", "_", "I",
        "E", "T", "F", "_", "D", "R", "A", "F", "T", "_", "2", "9">>
    [] transport_version = QUIC_VERSION_UNSUPPORTED ->
      <<"Q", "U", "I", "C", "_", "V", "E", "R", "S", "I", "O", "N", "_", "U",
        "N", "S", "U", "P", "P", "O", "R", "T", "E", "D">>
    [] transport_version = QUIC_VERSION_RESERVED_FOR_NEGOTIATION ->
      <<"Q", "U", "I", "C", "_", "V", "E", "R", "S", "I", "O", "N", "_", "R",
        "E", "S", "E", "R", "V", "E", "D", "_", "F", "O", "R", "_", "N",
        "E", "G", "O", "T", "I", "A", "T", "I", "O", "N">>
    [] OTHER ->
      <<"Q", "U", "I", "C", "_", "V", "E", "R", "S", "I", "O", "N", "_", "U",
        "N", "K", "N", "O", "W", "N", "(">>
        \o IntToString(transport_version) \o <<")">>

\* A version whose label needs random bytes is rendered with the bytes
\* given as all zero; the text calls of the model never pass it.
ParsedQuicVersionToString(version) ==
  IF version = UnsupportedQuicVersion THEN <<"0">>
  ELSE IF version = Draft29 THEN <<"d", "r", "a", "f", "t", "2", "9">>
  ELSE QuicVersionLabelToString(LabelOf(version))

AlpnForVersion(parsed_version) ==
  IF parsed_version = Draft29 THEN <<"h", "3", "-", "2", "9">>
  ELSE <<"h", "3", "-">> \o ParsedQuicVersionToString(parsed_version)

\* Mutation: the ellipsis test is i >= skip_after_nth_version.
RECURSIVE VersionVectorToStringFrom_OffByOne(_, _, _, _, _)
VersionVectorToStringFrom_OffByOne(versions, separator, skip_after_nth_version, i, result) ==
  IF i >= Len(versions) THEN result
  ELSE LET sep == IF i # 0 THEN result \o separator ELSE result
       IN IF i >= skip_after_nth_version
          THEN sep \o <<".", ".", ".">>
          ELSE VersionVectorToStringFrom_OffByOne(
                 versions, separator, skip_after_nth_version, i + 1,
                 sep \o ParsedQuicVersionToString(versions[i + 1]))

RECURSIVE VersionVectorToStringFrom(_, _, _, _, _)
VersionVectorToStringFrom(versions, separator, skip_after_nth_version, i, result) ==
  \* i is the 0-based loop index
  IF i >= Len(versions) THEN result
  ELSE LET sep == IF i # 0 THEN result \o separator ELSE result
       IN IF i > skip_after_nth_version
          THEN sep \o <<".", ".", ".">>
          ELSE VersionVectorToStringFrom(
                 versions, separator, skip_after_nth_version, i + 1,
                 sep \o ParsedQuicVersionToString(versions[i + 1]))

ParsedQuicVersionVectorToString(versions, separator, skip_after_nth_version) ==
  VersionVectorToStringFrom(versions, separator, skip_after_nth_version,
                            0, <<>>)

RECURSIVE LabelVectorToStringFrom(_, _, _, _, _)
LabelVectorToStringFrom(version_labels, separator, skip_after_nth_version, i, result) ==
  IF i >= Len(version_labels) THEN result
  ELSE LET sep == IF i # 0 THEN result \o separator ELSE result
       IN IF i > skip_after_nth_version
          THEN sep \o <<".", ".", ".">>
          ELSE LabelVectorToStringFrom(
                 version_labels, separator, skip_after_nth_version, i + 1,
                 sep \o QuicVersionLabelToString(version_labels[i + 1]))

QuicVersionLabelVectorToString(version_labels, separator, skip_after_nth_version) ==
  LabelVectorToStringFrom(version_labels, separator, skip_after_nth_version,
                          0, <<>>)

----------------------------------------------------------------------------
(* Text: parsing *)

\* absl::ascii_isspace, on the characters the model writes.
IsAsciiSpace(c) == c \in {" ", "\t", "\n", "\r"}

RECURSIVE StripLeading(_)
StripLeading(s) ==
  IF s # <<>> /\ IsAsciiSpace(Head(s)) THEN StripLeading(Tail(s)) ELSE s

RECURSIVE StripTrailing(_)
StripTrailing(s) ==
  IF s # <<>> /\ IsAsciiSpace(s[Len(s)])
  THEN StripTrailing(SubSeq(s, 1, Len(s) - 1)) ELSE s

\* QuicheTextUtils::RemoveLeadingAndTrailingWhitespace
RemoveLeadingAndTrailingWhitespace(s) == StripTrailing(StripLeading(s))

IsDigit(c) == c \in {"0", "1", "2", "3", "4", "5", "6", "7", "8", "9"}

kint32max == 2147483647

\* The digit loop of absl's safe_parse_positive_int, base 10, for int32.
RECURSIVE ParseDigits(_, _, _)
ParseDigits(s, i, value) ==
  IF i > Len(s) THEN [ok |-> TRUE, value |-> value]
  ELSE LET digit == Ord(s[i]) - Ord("0")
       IN IF ~IsDigit(s[i]) THEN [ok |-> FALSE, value |-> value]
          ELSE IF value > kint32max \div 10
          THEN [ok |-> FALSE, value |-> kint32max]
          ELSE IF value * 10 > kint32max - digit
          THEN [ok |-> FALSE, value |-> kint32max]
          ELSE ParseDigits(s, i + 1, value * 10 + digit)

\* absl::SimpleAtoi(str, &int): surrounding whitespace is skipped, one sign
\* is allowed, at least one digit is needed and the value must fit.  A
\* negative input is reported with the negated magnitude (the one value
\* INT_MIN is reported as a failure: no caller here accepts a value <= 0).
SimpleAtoi(str) ==
  LET t == RemoveLeadingAndTrailingWhitespace(str)
      negative == t # <<>> /\ Head(t) = "-"
      digits == IF t # <<>> /\ Head(t) \in {"+", "-"} THEN Tail(t) ELSE t
      parsed == ParseDigits(digits, 1, 0)
  IN IF digits = <<>> THEN [ok |-> FALSE, value |-> 0]
     ELSE [ok |-> parsed.ok,
           value |-> IF negative THEN 0 - parsed.value ELSE parsed.value]

\* ParsedQuicVersionIsValid: the pairs that are identities of the build.
ParsedQuicVersionIsValid(handshake_protocol, transport_version) ==
  ParsedQuicVersion(handshake_protocol, transport_version) \in Identities

VersionUsesHttp3(transport_version) == transport_version > QUIC_VERSION_46

UsesHttp3(version) == VersionUsesHttp3(version.transport_version)

\* Mutation: the ALPN token is not compared.
MatchesName_NoAlpn(version, version_string) ==
  \/ version_string = ParsedQuicVersionToString(version)
  \/ /\ version.handshake_protocol = PROTOCOL_QUIC_CRYPTO
     /\ version_string = QuicVersionToString(version.transport_version)

\* The first loop of ParseQuicVersionString: name, ALPN token, or for the
\* QUIC crypto handshake the transport version's name.
MatchesName(version, version_string) ==
  \/ version_string = ParsedQuicVersionToString(version)
  \/ version_string = AlpnForVersion(version)
  \/ /\ version.handshake_protocol = PROTOCOL_QUIC_CRYPTO
     /\ version_string = QuicVersionToString(version.transport_version)

\* The second loop: the rendering of the label.
MatchesLabel(version, version_string) ==
  /\ UsesHttp3(version)
  /\ version_string = QuicVersionLabelToString(LabelOf(version))

\* Mutation: the numeric branch forgets ParsedQuicVersionIsValid.
ParseQuicVersionStringReturn_NoValid(version_string) ==
  IF version_string = <<>>
  THEN [version |-> UnsupportedQuicVersion, at |-> "empty"]
  ELSE
    LET atoi == SimpleAtoi(version_string)
        All == AllSupportedVersions
    IN IF atoi.ok /\ atoi.value > 0
       THEN LET transport_version == atoi.value
                transport_version_is_supported ==
                  \E i \in 1..Len(SupportedTransportVersions) :
                    SupportedTransportVersions[i] = transport_version
            IN IF ~transport_version_is_supported
               THEN [version |-> UnsupportedQuicVersion,
                     at |-> "number_unsupported"]
               ELSE [version |-> ParsedQuicVersion(PROTOCOL_QUIC_CRYPTO,
                                                   transport_version),
                     at |-> "number"]
       ELSE IF \E i \in 1..Len(All) : MatchesName(All[i], version_string)
       THEN [version |->
               All[CHOOSE i \in 1..Len(All) :
                     /\ MatchesName(All[i], version_string)
                     /\ \A j \in 1..(i - 1) :
                          ~MatchesName(All[j], version_string)],
             at |-> "name"]
       ELSE IF \E i \in 1..Len(All) : MatchesLabel(All[i], version_string)
       THEN [version |->
               All[CHOOSE i \in 1..Len(All) :
                     /\ MatchesLabel(All[i], version_string)
                     /\ \A j \in 1..(i - 1) :
                          ~MatchesLabel(All[j], version_string)],
             at |-> "label"]
       ELSE [version |-> UnsupportedQuicVersion, at |-> "none"]

\* ParseQuicVersionString with the return statement it leaves by: "empty"
\* (line 326), "number_unsupported" (342), "number" (344), "name" (351),
\* "label" (358), "none" (364, after the QUIC_DLOG).
ParseQuicVersionStringReturn(version_string) ==
  IF version_string = <<>>
  THEN [version |-> UnsupportedQuicVersion, at |-> "empty"]
  ELSE
    LET atoi == SimpleAtoi(version_string)
        All == AllSupportedVersions
    IN IF atoi.ok /\ atoi.value > 0
       THEN LET transport_version == atoi.value
                transport_version_is_supported ==
                  \E i \in 1..Len(SupportedTransportVersions) :
                    SupportedTransportVersions[i] = transport_version
            IN IF \/ ~transport_version_is_supported
                  \/ ~ParsedQuicVersionIsValid(PROTOCOL_QUIC_CRYPTO,
                                               transport_version)
               THEN [version |-> UnsupportedQuicVersion,
                     at |-> "number_unsupported"]
               ELSE [version |-> ParsedQuicVersion(PROTOCOL_QUIC_CRYPTO,
                                                   transport_version),
                     at |-> "number"]
       ELSE IF \E i \in 1..Len(All) : MatchesName(All[i], version_string)
       THEN [version |->
               All[CHOOSE i \in 1..Len(All) :
                     /\ MatchesName(All[i], version_string)
                     /\ \A j \in 1..(i - 1) :
                          ~MatchesName(All[j], version_string)],
             at |-> "name"]
       ELSE IF \E i \in 1..Len(All) : MatchesLabel(All[i], version_string)
       THEN [version |->
               All[CHOOSE i \in 1..Len(All) :
                     /\ MatchesLabel(All[i], version_string)
                     /\ \A j \in 1..(i - 1) :
                          ~MatchesLabel(All[j], version_string)],
             at |-> "label"]
       ELSE [version |-> UnsupportedQuicVersion, at |-> "none"]

ParseQuicVersionString(version_string) ==
  ParseQuicVersionStringReturn(version_string).version

\* absl::StrSplit(text, ','): the pieces between the commas; a text without
\* a comma is one piece, the empty text one empty piece.
RECURSIVE StrSplitFrom(_, _, _, _)
StrSplitFrom(text, i, piece, pieces) ==
  IF i > Len(text) THEN Append(pieces, piece)
  ELSE IF text[i] = ","
  THEN StrSplitFrom(text, i + 1, <<>>, Append(pieces, piece))
  ELSE StrSplitFrom(text, i + 1, Append(piece, text[i]), pieces)

StrSplit(text) == StrSplitFrom(text, 1, <<>>, <<>>)

\* Mutation: the std::find for duplicates is forgotten.
RECURSIVE ParseVectorFrom_NoFind(_, _, _)
ParseVectorFrom_NoFind(version_strings, i, versions) ==
  IF i > Len(version_strings) THEN versions
  ELSE LET version_string ==
             RemoveLeadingAndTrailingWhitespace(version_strings[i])
           version == ParseQuicVersionString(version_string)
       IN IF ~IsKnown(version)
          THEN ParseVectorFrom_NoFind(version_strings, i + 1, versions)
          ELSE ParseVectorFrom_NoFind(version_strings, i + 1,
                                      Append(versions, version))

RECURSIVE ParseVectorFrom(_, _, _)
ParseVectorFrom(version_strings, i, versions) ==
  IF i > Len(version_strings) THEN versions
  ELSE LET version_string ==
             RemoveLeadingAndTrailingWhitespace(version_strings[i])
           version == ParseQuicVersionString(version_string)
       IN IF ~IsKnown(version) \/ version \in Range(versions)
          THEN ParseVectorFrom(version_strings, i + 1, versions)
          ELSE ParseVectorFrom(version_strings, i + 1,
                               Append(versions, version))

ParseQuicVersionVectorString(versions_string) ==
  ParseVectorFrom(StrSplit(versions_string), 1, <<>>)

----------------------------------------------------------------------------
(* Capability predicates of ParsedQuicVersion *)

UsesTls(version) == version.handshake_protocol = PROTOCOL_TLS1_3

UsesQuicCrypto(version) == version.handshake_protocol = PROTOCOL_QUIC_CRYPTO

KnowsWhichDecrypterToUse(version) ==
  version.transport_version > QUIC_VERSION_46

HasHeaderProtection(version) == version.transport_version > QUIC_VERSION_46

SupportsRetry(version) == version.transport_version > QUIC_VERSION_46

HasRetryIntegrityTag(version) == version.handshake_protocol = PROTOCOL_TLS1_3

SendsVariableLengthPacketNumberInLongHeader(version) ==
  version.transport_version > QUIC_VERSION_46

VersionAllowsVariableLengthConnectionIds(transport_version) ==
  transport_version > QUIC_VERSION_46

AllowsVariableLengthConnectionIds(version) ==
  VersionAllowsVariableLengthConnectionIds(version.transport_version)

SupportsClientConnectionIds(version) ==
  version.transport_version > QUIC_VERSION_46

VersionHasLengthPrefixedConnectionIds(transport_version) ==
  transport_version > QUIC_VERSION_46

HasLengthPrefixedConnectionIds(version) ==
  VersionHasLengthPrefixedConnectionIds(version.transport_version)

\* Mutation: the comparison is strict, so version 46 loses the format.
VersionSupportsGoogleAltSvcFormat_Strict(transport_version) ==
  transport_version < QUIC_VERSION_46

VersionSupportsGoogleAltSvcFormat(transport_version) ==
  transport_version <= QUIC_VERSION_46

SupportsGoogleAltSvcFormat(version) ==
  VersionSupportsGoogleAltSvcFormat(version.transport_version)

HasHandshakeDone(version) == UsesTls(version)

HasVarIntTransportParams(version) == UsesTls(version)

AuthenticatesHandshakeConnectionIds(version) == UsesTls(version)

\* The predicates a caller asks of one identity, by name.
Capabilities(version) ==
  [KnowsWhichDecrypterToUse |-> KnowsWhichDecrypterToUse(version),
   HasHeaderProtection |-> HasHeaderProtection(version),
   SupportsRetry |-> SupportsRetry(version),
   HasRetryIntegrityTag |-> HasRetryIntegrityTag(version),
   SendsVariableLengthPacketNumberInLongHeader |->
     SendsVariableLengthPacketNumberInLongHeader(version),
   AllowsVariableLengthConnectionIds |->
     AllowsVariableLengthConnectionIds(version),
   SupportsClientConnectionIds |-> SupportsClientConnectionIds(version),
   HasLengthPrefixedConnectionIds |-> HasLengthPrefixedConnectionIds(version),
   SupportsGoogleAltSvcFormat |-> SupportsGoogleAltSvcFormat(version),
   HasHandshakeDone |-> HasHandshakeDone(version),
   HasVarIntTransportParams |-> HasVarIntTransportParams(version),
   AuthenticatesHandshakeConnectionIds |->
     AuthenticatesHandshakeConnectionIds(version),
   UsesTls |-> UsesTls(version)]

----------------------------------------------------------------------------
(* Registry calls as steps *)

\* prev is the flag store before the call; for SetVersionFlag versions is
\* CurrentSupportedVersions() before the call, else the vector returned.
NoCall ==
  [op |-> "none", version |-> UnsupportedQuicVersion, should_enable |-> FALSE,
   prev |-> [n \in FlagNames |-> FALSE], versions |-> <<>>,
   enabled |-> FALSE, label |-> Zero32, parsed |-> UnsupportedQuicVersion,
   input |-> <<>>, capabilities |-> <<>>]

QuicEnableVersion(version) ==
  /\ SetVersionFlag(version, TRUE)
  /\ last' = [NoCall EXCEPT !.op = "SetVersionFlag", !.version = version,
                            !.should_enable = TRUE, !.prev = disable_flag,
                            !.versions = CurrentSupportedVersions.versions]
  /\ UNCHANGED <<q_pc, q_filtered, q_observed, codec_vars, text_vars>>

QuicDisableVersion(version) ==
  /\ SetVersionFlag(version, FALSE)
  /\ last' = [NoCall EXCEPT !.op = "SetVersionFlag", !.version = version,
                            !.should_enable = FALSE, !.prev = disable_flag,
                            !.versions = CurrentSupportedVersions.versions]
  /\ UNCHANGED <<q_pc, q_filtered, q_observed, codec_vars, text_vars>>

CallQuicVersionIsEnabled(version) ==
  /\ last' = [NoCall EXCEPT !.op = "QuicVersionIsEnabled",
                            !.version = version, !.prev = disable_flag,
                            !.enabled = QuicVersionIsEnabled(version)]
  /\ quic_bug' = CurrentSupportedVersions.bug
  /\ UNCHANGED <<disable_flag, q_pc, q_filtered, q_observed,
                 codec_vars, text_vars>>

\* A call of one of the four functions that restrict to a handshake kind.
CallWithHandshake(op, r) ==
  /\ last' = [NoCall EXCEPT !.op = op, !.prev = disable_flag,
                            !.versions = r.versions]
  /\ quic_bug' = r.bug
  /\ UNCHANGED <<disable_flag, q_pc, q_filtered, q_observed,
                 codec_vars, text_vars>>

CallAllSupportedVersionsWithQuicCrypto ==
  CallWithHandshake("AllSupportedVersionsWithQuicCrypto",
                    AllSupportedVersionsWithQuicCrypto)

CallCurrentSupportedVersionsWithQuicCrypto ==
  CallWithHandshake("CurrentSupportedVersionsWithQuicCrypto",
                    CurrentSupportedVersionsWithQuicCrypto)

CallAllSupportedVersionsWithTls ==
  CallWithHandshake("AllSupportedVersionsWithTls",
                    AllSupportedVersionsWithTls)

CallCurrentSupportedVersionsWithTls ==
  CallWithHandshake("CurrentSupportedVersionsWithTls",
                    CurrentSupportedVersionsWithTls)

\* Encode a table entry and decode the label again.
CallParseQuicVersionLabel(version) ==
  LET created == CreateQuicVersionLabel(version, Zero32)
  IN /\ last' = [NoCall EXCEPT !.op = "ParseQuicVersionLabel",
                               !.version = version, !.prev = disable_flag,
                               !.label = created.label,
                               !.parsed = ParseQuicVersionLabel(created.label)]
     /\ quic_bug' = created.bug
     /\ UNCHANGED <<disable_flag, q_pc, q_filtered, q_observed,
                    codec_vars, text_vars>>

\* The capability predicates are asked of an identity.  Each starts with
\* DCHECK(IsKnown()), which a debug build reports for the Unsupported
\* identity; the values are those a release build returns.
CallCapabilities(version) ==
  /\ last' = [NoCall EXCEPT !.op = "Capabilities", !.version = version,
                            !.prev = disable_flag,
                            !.capabilities = Capabilities(version)]
  /\ quic_bug' = IF IsKnown(version) THEN NoBug ELSE "DCHECK(IsKnown())"
  /\ UNCHANGED <<disable_flag, q_pc, q_filtered, q_observed,
                 codec_vars, text_vars>>

MaxFilterInput == 2

\* The identities a filter input is made of: table entries of both
\* handshake kinds and the two sentinels.
FilterInputElements ==
  {Draft29, T051, Q043, ReservedForNegotiation, UnsupportedQuicVersion}

\* FilterSupportedVersions(versions) on a vector the caller built: up to
\* MaxFilterInput identities, table entries and sentinels alike.
CallFilterSupportedVersions(versions) ==
  LET filtered == FilterSupportedVersions(versions)
  IN /\ last' = [NoCall EXCEPT !.op = "FilterSupportedVersions",
                               !.prev = disable_flag, !.input = versions,
                               !.versions = filtered.versions]
     /\ quic_bug' = filtered.bug
     /\ UNCHANGED <<disable_flag, q_pc, q_filtered, q_observed,
                    codec_vars, text_vars>>

(* CurrentSupportedVersions() run by another thread, one toggle read per   *)
(* step: q_pc = 0 is idle, 1..5 the table index about to be examined, 6    *)
(* the return.                                                             *)
QueryStart ==
  /\ q_pc = 0
  /\ q_pc' = 1
  /\ q_filtered' = <<>>
  /\ q_observed' = <<>>
  /\ UNCHANGED <<disable_flag, quic_bug, last, codec_vars, text_vars>>

QueryStep ==
  /\ q_pc \in 1..Len(AllSupportedVersions)
  /\ LET version == AllSupportedVersions[q_pc]
         r == FilterOneVersion(version)
     IN /\ q_filtered' = (IF r.keep THEN Append(q_filtered, version)
                                    ELSE q_filtered)
        /\ q_observed' = q_observed \o r.read
        /\ quic_bug' = (IF r.bug # NoBug THEN r.bug ELSE quic_bug)
  /\ q_pc' = q_pc + 1
  /\ UNCHANGED <<disable_flag, last, codec_vars, text_vars>>

QueryReturn ==
  /\ q_pc = Len(AllSupportedVersions) + 1
  /\ q_pc' = 0
  /\ q_filtered' = <<>>
  /\ q_observed' = <<>>
  /\ UNCHANGED <<disable_flag, quic_bug, last, codec_vars, text_vars>>

----------------------------------------------------------------------------
(* Codec calls as steps *)

NumRandByteValues == 19

\* The byte values the random source hands out in the model, the first
\* NumRandByteValues of: every high nibble (all that survives the mask),
\* then the bytes of the label Q043, 0xff and other bytes of table labels.
RandByteSamples ==
  <<0, 16, 32, 48, 64, 80, 96, 112, 128, 144, 160, 176, 192, 208, 224, 240,
    81, 52, 51, 255, 29, 84, 53, 49, 54, 10>>

RandByteValues ==
  {RandByteSamples[i] :
     i \in 1..(IF NumRandByteValues < Len(RandByteSamples)
               THEN NumRandByteValues ELSE Len(RandByteSamples))}

\* CreateQuicVersionLabel(version) is called.  When it is about to ask the
\* random source the call waits for the four bytes; otherwise it returns.
CallCreateQuicVersionLabel(version) ==
  /\ c_pc = "idle"
  /\ c_version' = version
  /\ LET created == CreateQuicVersionLabel(version, Zero32)
     IN IF created.rand_calls > 0
        THEN /\ c_pc' = "RandBytes"
             /\ c_draw' = <<>>
             /\ c_rand_calls' = created.rand_calls
             /\ UNCHANGED <<c_label, quic_bug>>
        ELSE /\ c_pc' = "created"
             /\ c_label' = created.label
             /\ c_rand_calls' = created.rand_calls
             /\ quic_bug' = created.bug
             /\ UNCHANGED c_draw
  /\ UNCHANGED <<disable_flag, last, q_pc, q_filtered, q_observed,
                 grease_off, c_parsed, text_vars>>

\* QuicRandom::RandBytes fills the next byte of the four.
RandByte(b) ==
  /\ c_pc = "RandBytes"
  /\ Len(c_draw) < 4
  /\ c_draw' = Append(c_draw, b)
  /\ UNCHANGED <<registry_vars, grease_off, c_pc, c_version, c_rand_calls,
                 c_label, c_parsed, text_vars>>

\* RandBytes has returned: the rest of CreateQuicVersionLabel.
ReturnCreateQuicVersionLabel ==
  /\ c_pc = "RandBytes"
  /\ Len(c_draw) = 4
  /\ LET created == CreateQuicVersionLabel(c_version, c_draw)
     IN /\ c_label' = created.label
        /\ quic_bug' = created.bug
  /\ c_pc' = "created"
  /\ UNCHANGED <<disable_flag, last, q_pc, q_filtered, q_observed,
                 grease_off, c_version, c_draw, c_rand_calls, c_parsed,
                 text_vars>>

\* The peer decodes the label it was sent.
CallParseCreatedLabel ==
  /\ c_pc = "created"
  /\ c_parsed' = ParseQuicVersionLabel(c_label)
  /\ c_pc' = "parsed"
  /\ UNCHANGED <<registry_vars, grease_off, c_version, c_draw, c_rand_calls,
                 c_label, text_vars>>

CodecReturn ==
  /\ c_pc = "parsed"
  /\ c_pc' = "idle"
  /\ c_version' = UnsupportedQuicVersion
  /\ c_draw' = Zero32
  /\ c_rand_calls' = 0
  /\ c_label' = Zero32
  /\ c_parsed' = UnsupportedQuicVersion
  /\ quic_bug' = NoBug
  /\ UNCHANGED <<disable_flag, last, q_pc, q_filtered, q_observed,
                 grease_off, text_vars>>

\* SetQuicFlag(FLAGS_quic_disable_version_negotiation_grease_randomness, b)
SetGreaseRandomnessDisabled(b) ==
  /\ c_pc = "idle"
  /\ grease_off # b
  /\ grease_off' = b
  /\ UNCHANGED <<registry_vars, c_pc, c_version, c_draw, c_rand_calls,
                 c_label, c_parsed, text_vars>>

----------------------------------------------------------------------------
(* Text calls as steps *)

MaxTokens == 4
MaxVersions == 5
MaxSkip == 2

\* Strings handed to ParseQuicVersionString: every rendering of every
\* identity, numbers, and strings that match nothing.
ParseInputs ==
  {ParsedQuicVersionToString(v) : v \in Identities \ {ReservedForNegotiation}}
    \cup {AlpnForVersion(v) : v \in Identities \ {ReservedForNegotiation}}
    \cup {QuicVersionToString(v.transport_version) : v \in Identities}
    \cup {QuicVersionLabelToString(LabelOf(v)) : v \in Range(AllSupportedVersions)}
    \cup
    {<<>>,
     <<"4", "3">>,
     <<"4", "6">>,
     <<"5", "0">>,
     <<"5", "1">>,
     <<"7", "3">>,
     <<"9", "9", "9">>,
     <<"4", "4">>,
     <<"0">>,
     <<"+", "4", "3">>,
     <<"-", "4", "3">>,
     <<"0", "4", "3">>,
     <<" ", "4", "3">>,
     <<"2", "1", "4", "7", "4", "8", "3", "6", "4", "8">>,
     <<"2", "1", "4", "7", "4", "8", "3", "6", "4", "7">>,
     <<"4", "2", "9", "4", "9", "6", "7", "3", "3", "9">>,
     <<"0", "0">>,
     <<"4", "3", "a">>,
     <<"g", "a", "r", "b", "a", "g", "e">>,
     <<"Q", "0", "4", "4">>,
     <<"h", "3", "-", "Q", "0", "4", "3", " ">>,
     <<"h", "3", "-">>,
     <<"d", "r", "a", "f", "t", "-", "2", "9">>}

\* The pieces a comma-separated list is made of: a string (core) with
\* whitespace before and after it.
ListTokens ==
  <<[lead |-> <<>>, core |-> <<"h", "3", "-", "2", "9">>, trail |-> <<>>],
    [lead |-> <<" ">>, core |-> <<"h", "3", "-", "2", "9">>, trail |-> <<" ">>],
    [lead |-> <<" ">>, core |-> <<"g", "a", "r", "b", "a", "g", "e">>, trail |-> <<>>],
    [lead |-> <<>>, core |-> <<"Q", "0", "4", "6">>, trail |-> <<>>],
    [lead |-> <<>>, core |-> <<"4", "3">>, trail |-> <<>>],
    [lead |-> <<>>, core |-> <<>>, trail |-> <<>>],
    [lead |-> <<>>, core |-> <<"d", "r", "a", "f", "t", "2", "9">>, trail |-> <<"\t">>]>>

TokenText(token) == token.lead \o token.core \o token.trail

RECURSIVE JoinTokens(_)
JoinTokens(tokens) ==
  IF Len(tokens) = 1 THEN TokenText(tokens[1])
  ELSE TokenText(tokens[1]) \o <<",">> \o JoinTokens(Tail(tokens))

\* The elements of the vectors handed to the formatters.
FormatElements == {Draft29, Q043, UnsupportedQuicVersion}

Separators == {<<",">>, <<",", " ">>}

NoInput ==
  [op |-> "none", string |-> <<>>, tokens |-> <<>>, versions |-> <<>>,
   separator |-> <<>>, skip_after_nth_version |-> 0]

\* The calls of the text specification, with their arguments.
ParseStringCall(version_string) ==
  [NoInput EXCEPT !.op = "ParseQuicVersionString", !.string = version_string]

ParseVectorCall(tokens) ==
  [NoInput EXCEPT !.op = "ParseQuicVersionVectorString",
                  !.string = JoinTokens(tokens), !.tokens = tokens]

FormatCall(op, versions, separator, skip_after_nth_version) ==
  [NoInput EXCEPT !.op = op, !.versions = versions, !.separator = separator,
                  !.skip_after_nth_version = skip_after_nth_version]

\* One call of a text function is chosen, with arguments within the bounds.
TextCall(call) ==
  \/ \E version_string \in ParseInputs : call = ParseStringCall(version_string)
  \/ \E n \in 1..MaxTokens : \E tokens \in [1..n -> Range(ListTokens)] :
       call = ParseVectorCall(tokens)
  \/ \E op \in {"ParsedQuicVersionVectorToString",
                 "QuicVersionLabelVectorToString"} :
       \E n \in 0..MaxVersions : \E versions \in [1..n -> FormatElements] :
         \E separator \in Separators :
           \E skip_after_nth_version \in 0..MaxSkip :
             call = FormatCall(op, versions, separator, skip_after_nth_version)

CallParseQuicVersionString ==
  /\ t_pc = "call"
  /\ t_in.op = "ParseQuicVersionString"
  /\ t_pc' = "done"
  /\ LET r == ParseQuicVersionStringReturn(t_in.string)
     IN /\ t_out' = r.version
        /\ t_return' = r.at
  /\ UNCHANGED <<registry_vars, codec_vars, t_in>>

CallParseQuicVersionVectorString ==
  /\ t_pc = "call"
  /\ t_in.op = "ParseQuicVersionVectorString"
  /\ t_pc' = "done"
  /\ t_out' = ParseQuicVersionVectorString(t_in.string)
  /\ t_return' = "return"
  /\ UNCHANGED <<registry_vars, codec_vars, t_in>>

CallParsedQuicVersionVectorToString ==
  /\ t_pc = "call"
  /\ t_in.op = "ParsedQuicVersionVectorToString"
  /\ t_pc' = "done"
  /\ t_out' = ParsedQuicVersionVectorToString(
                t_in.versions, t_in.separator, t_in.skip_after_nth_version)
  /\ t_return' = "return"
  /\ UNCHANGED <<registry_vars, codec_vars, t_in>>

\* The labels of the vector are rendered.
CallQuicVersionLabelVectorToString ==
  /\ t_pc = "call"
  /\ t_in.op = "QuicVersionLabelVectorToString"
  /\ t_pc' = "done"
  /\ t_out' = QuicVersionLabelVectorToString(
                CreateQuicVersionLabelVector(t_in.versions), t_in.separator,
                t_in.skip_after_nth_version)
  /\ t_return' = "return"
  /\ UNCHANGED <<registry_vars, codec_vars, t_in>>

----------------------------------------------------------------------------
(* Idle values of the codec and text calls *)

CodecIdle ==
  /\ c_pc = "idle"
  /\ c_version = UnsupportedQuicVersion
  /\ c_draw = Zero32
  /\ c_rand_calls = 0
  /\ c_label = Zero32
  /\ c_parsed = UnsupportedQuicVersion

TextIdle ==
  /\ t_pc = "idle"
  /\ t_in = NoInput
  /\ t_out = <<>>
  /\ t_return = ""

RegistryIdle ==
  /\ quic_bug = NoBug
  /\ last = NoCall
  /\ q_pc = 0
  /\ q_filtered = <<>>
  /\ q_observed = <<>>

----------------------------------------------------------------------------
(* The registry specification: any flag store, any sequence of calls. *)

Init ==
  /\ disable_flag \in [FlagNames -> BOOLEAN]
  /\ grease_off = FALSE
  /\ RegistryIdle
  /\ CodecIdle
  /\ TextIdle

Next ==
  \/ \E version \in Identities : QuicEnableVersion(version)
  \/ \E version \in Identities : QuicDisableVersion(version)
  \/ \E version \in Identities : CallQuicVersionIsEnabled(version)
  \/ CallAllSupportedVersionsWithQuicCrypto
  \/ CallCurrentSupportedVersionsWithQuicCrypto
  \/ CallAllSupportedVersionsWithTls
  \/ CallCurrentSupportedVersionsWithTls
  \/ \E version \in Range(AllSupportedVersions) :
       CallParseQuicVersionLabel(version)
  \/ \E n \in 0..MaxFilterInput : \E versions \in [1..n -> FilterInputElements] :
       CallFilterSupportedVersions(versions)
  \/ \E version \in Identities : CallCapabilities(version)

Spec == Init /\ [][Next]_vars

(* The query specification: CurrentSupportedVersions() reading the toggles *)
(* one by one while other threads enable and disable versions.             *)
NextQuery ==
  \/ \E version \in Identities : QuicEnableVersion(version)
  \/ \E version \in Identities : QuicDisableVersion(version)
  \/ QueryStart
  \/ QueryStep
  \/ QueryReturn

SpecQuery == Init /\ [][NextQuery]_vars

(* The codec specification: labels created and decoded again. *)
InitCodec ==
  /\ disable_flag = [n \in FlagNames |-> FALSE]
  /\ grease_off \in BOOLEAN
  /\ RegistryIdle
  /\ CodecIdle
  /\ TextIdle

NextCodec ==
  \/ \E version \in Identities : CallCreateQuicVersionLabel(version)
  \/ \E b \in RandByteValues : RandByte(b)
  \/ ReturnCreateQuicVersionLabel
  \/ CallParseCreatedLabel
  \/ CodecReturn
  \/ \E b \in BOOLEAN : SetGreaseRandomnessDisabled(b)

SpecCodec == InitCodec /\ [][NextCodec]_vars

(* The text specification: each behaviour is one call of a parsing or     *)
(* formatting function on arguments drawn from the bounded sets above.     *)
InitText ==
  /\ disable_flag = [n \in FlagNames |-> FALSE]
  /\ grease_off = FALSE
  /\ RegistryIdle
  /\ CodecIdle
  /\ t_pc = "call"
  /\ TextCall(t_in)
  /\ t_out = <<>>
  /\ t_return = ""

NextText ==
  \/ CallParseQuicVersionString
  \/ CallParseQuicVersionVectorString
  \/ CallParsedQuicVersionVectorToString
  \/ CallQuicVersionLabelVectorToString

SpecText == InitText /\ [][NextText]_vars

----------------------------------------------------------------------------
(* Properties *)

Table == Range(AllSupportedVersions)

\* The position of a table entry in AllSupportedVersions().
TableIndex(version) ==
  CHOOSE i \in 1..Len(AllSupportedVersions) : AllSupportedVersions[i] = version

\* The toggle that belongs to a table entry.
ToggleOf(version) ==
  CASE version = Draft29 -> "quic_disable_version_draft_29"
    [] version = T051 -> "quic_disable_version_t051"
    [] version = Q050 -> "quic_disable_version_q050"
    [] version = Q046 -> "quic_disable_version_q046"
    [] version = Q043 -> "quic_disable_version_q043"

\* s lists table entries at strictly increasing table positions: a
\* subsequence of AllSupportedVersions() in table order, without duplicates.
IsTableSubsequence(s) ==
  /\ \A i \in 1..Len(s) : s[i] \in Table
  /\ \A i, j \in 1..Len(s) : i < j => TableIndex(s[i]) < TableIndex(s[j])

\* C1: for every version v of AllSupportedVersions(),
\* ParseQuicVersionLabel(CreateQuicVersionLabel(v)) is v, whatever the
\* version toggles are: both for the call just made and for every table
\* entry in the current toggle state.
C1_LabelRoundTrip ==
  /\ \A v \in Table : ParseQuicVersionLabel(LabelOf(v)) = v
  /\ last.op = "ParseQuicVersionLabel" =>
       /\ last.parsed = last.version
       /\ quic_bug = NoBug

\* A disabled version's label has just been created and decoded to itself.
C1_Witness ==
  /\ last.op = "ParseQuicVersionLabel"
  /\ last.version = Q043
  /\ disable_flag["quic_disable_version_q043"]
  /\ last.label = <<81, 48, 52, 51>>
  /\ last.parsed = Q043

\* C2: the labels of the table entries are pairwise distinct; a label
\* created for ReservedForNegotiation(), from any bytes of the random
\* source or from the fixed pattern, is the label of no table entry, and
\* ParseQuicVersionLabel of it is the Unsupported identity.
C2_NoCollision ==
  /\ Cardinality({LabelOf(v) : v \in Table}) = Cardinality(Table)
  /\ (c_pc \in {"created", "parsed"} /\ c_version = ReservedForNegotiation)
       => c_label \notin {LabelOf(v) : v \in Table}
  /\ (c_pc = "parsed" /\ c_version = ReservedForNegotiation)
       => c_parsed = UnsupportedQuicVersion

\* The random source handed out the very bytes of the label of Q043, and
\* the greased label decoded to Unsupported.
C2_Witness ==
  /\ c_pc = "parsed"
  /\ c_version = ReservedForNegotiation
  /\ c_rand_calls = 1
  /\ c_draw = <<81, 48, 52, 51>>
  /\ c_parsed = UnsupportedQuicVersion

\* C3: every label created for ReservedForNegotiation() has the low nibble
\* 0xA in each of its four bytes, (label & 0x0F0F0F0F) = 0x0A0A0A0A; with
\* the grease randomness disabled the label is always the same constant,
\* 0xda5a3a3a, and the random source is not asked.
C3_GreaseMask ==
  (c_pc \in {"created", "parsed"} /\ c_version = ReservedForNegotiation)
    => /\ \A i \in 1..4 : c_label[i] % 16 = 10
       /\ grease_off => /\ c_label = <<218, 90, 58, 58>>
                        /\ c_rand_calls = 0
                        /\ c_draw = Zero32

\* Random bytes 0xf0 0x51 0x34 0x33 were greased to 0xfa 0x5a 0x3a 0x3a.
C3_Witness ==
  /\ c_pc = "created"
  /\ c_version = ReservedForNegotiation
  /\ ~grease_off
  /\ c_rand_calls = 1
  /\ c_draw = <<240, 81, 52, 51>>
  /\ c_label = <<250, 90, 58, 58>>

\* C4: whatever enable/disable calls ran before or run between the toggle
\* reads of a CurrentSupportedVersions() query, the vector it builds (and
\* returns at q_pc = 6) is a subsequence of AllSupportedVersions() in table
\* order without duplicates, and holds a version only if the query read
\* that version's disable toggle as false; the same holds of the vector
\* computed in one go from the current toggles.
C4_FilterOrder ==
  /\ IsTableSubsequence(q_filtered)
  /\ \A i \in 1..Len(q_filtered) :
       /\ TableIndex(q_filtered[i]) <= Len(q_observed)
       /\ q_observed[TableIndex(q_filtered[i])] = FALSE
  /\ IsTableSubsequence(CurrentSupportedVersions.versions)
  /\ \A v \in Range(CurrentSupportedVersions.versions) :
       disable_flag[ToggleOf(v)] = FALSE

\* A query has finished whose result no single toggle state gives: it
\* holds Q043, disabled since, and lacks Draft29, enabled since.
C4_Witness ==
  /\ q_pc = Len(AllSupportedVersions) + 1
  /\ Q043 \in Range(q_filtered)
  /\ disable_flag["quic_disable_version_q043"]
  /\ Draft29 \notin Range(q_filtered)
  /\ ~disable_flag["quic_disable_version_draft_29"]

\* C5: right after SetVersionFlag(v, b) for a table entry v,
\* QuicVersionIsEnabled(v) = b, every toggle but v's is as before, so
\* QuicVersionIsEnabled(w) is as before for every other entry w; and a
\* QuicVersionIsEnabled(v) call returns membership of v in
\* CurrentSupportedVersions().
C5_SetOneToggle ==
  /\ (last.op = "SetVersionFlag" /\ last.version \in Table) =>
       /\ QuicVersionIsEnabled(last.version) = last.should_enable
       /\ \A n \in FlagNames \ {ToggleOf(last.version)} :
            disable_flag[n] = last.prev[n]
       /\ \A w \in Table \ {last.version} :
            QuicVersionIsEnabled(w) = (w \in Range(last.versions))
  /\ last.op = "QuicVersionIsEnabled" =>
       /\ last.enabled =
            (\E i \in 1..Len(CurrentSupportedVersions.versions) :
               CurrentSupportedVersions.versions[i] = last.version)
       /\ last.version \in Table =>
            last.enabled = ~disable_flag[ToggleOf(last.version)]

\* Q050 was enabled and has just been disabled while Q046 stays enabled.
C5_Witness ==
  /\ last.op = "SetVersionFlag"
  /\ last.version = Q050
  /\ last.should_enable = FALSE
  /\ ~last.prev["quic_disable_version_q050"]
  /\ disable_flag["quic_disable_version_q050"]
  /\ ~disable_flag["quic_disable_version_q046"]

\* C6: QuicEnableVersion / QuicDisableVersion with an identity that is not
\* in AllSupportedVersions() raises QUIC_BUG and changes no toggle, so
\* CurrentSupportedVersions() is as before the call.
C6_UnknownIdentity ==
  (last.op = "SetVersionFlag" /\ last.version \notin Table) =>
    /\ quic_bug # NoBug
    /\ disable_flag = last.prev
    /\ CurrentSupportedVersions.versions = last.versions

\* QuicDisableVersion(ReservedForNegotiation()) was called with some
\* version enabled.
C6_Witness ==
  /\ last.op = "SetVersionFlag"
  /\ last.version = ReservedForNegotiation
  /\ ~last.should_enable
  /\ quic_bug = "Cannot disable version"
  /\ last.versions # <<>>

\* The enabled table entries of one handshake kind, in table order.
EnabledOfKind(handshake_protocol) ==
  SelectSeq(AllSupportedVersions,
            LAMBDA v : /\ v.handshake_protocol = handshake_protocol
                       /\ ~disable_flag[ToggleOf(v)])

\* C7: CurrentSupportedVersionsWithTls() / ...WithQuicCrypto() return the
\* enabled entries of that kind in table order; the result is empty, and
\* QUIC_BUG raised, exactly when every entry of the kind is disabled;
\* AllSupportedVersionsWithTls() / ...WithQuicCrypto() are never empty and
\* never raise QUIC_BUG.
C7_HandshakeViews ==
  /\ last.op = "CurrentSupportedVersionsWithTls" =>
       /\ last.versions = EnabledOfKind(PROTOCOL_TLS1_3)
       /\ (last.versions = <<>>) <=>
            (\A v \in Table : v.handshake_protocol = PROTOCOL_TLS1_3
                                => disable_flag[ToggleOf(v)])
       /\ (quic_bug # NoBug) <=> (last.versions = <<>>)
  /\ last.op = "CurrentSupportedVersionsWithQuicCrypto" =>
       /\ last.versions = EnabledOfKind(PROTOCOL_QUIC_CRYPTO)
       /\ (last.versions = <<>>) <=>
            (\A v \in Table : v.handshake_protocol = PROTOCOL_QUIC_CRYPTO
                                => disable_flag[ToggleOf(v)])
       /\ (quic_bug # NoBug) <=> (last.versions = <<>>)
  /\ last.op \in {"AllSupportedVersionsWithTls",
                  "AllSupportedVersionsWithQuicCrypto"} =>
       /\ last.versions # <<>>
       /\ quic_bug = NoBug

\* Every TLS entry is disabled, a QUIC crypto entry is not, and
\* CurrentSupportedVersionsWithTls() came back empty with the diagnostic.
C7_Witness ==
  /\ last.op = "CurrentSupportedVersionsWithTls"
  /\ last.versions = <<>>
  /\ quic_bug = "No version with TLS handshake found."
  /\ ~disable_flag["quic_disable_version_q043"]

\* C8: ParseQuicVersionString gives v back for the canonical string
\* ParsedQuicVersionToString(v) and for the ALPN token AlpnForVersion(v) of
\* every table entry v, and the canonical strings and ALPN tokens of the
\* table entries are all different: ten strings for five entries.
C8_ParseCanonical ==
  /\ Cardinality({ParsedQuicVersionToString(v) : v \in Table}
                   \cup {AlpnForVersion(v) : v \in Table})
       = 2 * Cardinality(Table)
  /\ (t_pc = "done" /\ t_in.op = "ParseQuicVersionString") =>
       \A v \in Table :
         (\/ t_in.string = ParsedQuicVersionToString(v)
          \/ t_in.string = AlpnForVersion(v))
           => t_out = v

\* "h3-T051" was parsed to T051.
C8_Witness ==
  /\ t_pc = "done"
  /\ t_in.op = "ParseQuicVersionString"
  /\ t_in.string = <<"h", "3", "-", "T", "0", "5", "1">>
  /\ t_out = T051

\* The first token of the list whose core parses to the version.
FirstToken(tokens, version) ==
  CHOOSE i \in 1..Len(tokens) :
    /\ ParseQuicVersionString(tokens[i].core) = version
    /\ \A j \in 1..(i - 1) : ParseQuicVersionString(tokens[j].core) # version

\* C9: ParseQuicVersionVectorString returns no Unsupported identity and no
\* identity twice; its elements are exactly the known identities that the
\* whitespace-trimmed tokens (the cores) parse to, in the order of their
\* first tokens; "h3-29, h3-29 , garbage,Q046" gives [Draft29, Q046].
C9_VectorParse ==
  (t_pc = "done" /\ t_in.op = "ParseQuicVersionVectorString") =>
    LET tokens == t_in.tokens
        parsed == {ParseQuicVersionString(tokens[i].core) :
                     i \in 1..Len(tokens)}
    IN /\ \A i \in 1..Len(t_out) :
            /\ t_out[i] # UnsupportedQuicVersion
            /\ IsKnown(t_out[i])
       /\ \A i, j \in 1..Len(t_out) : i # j => t_out[i] # t_out[j]
       /\ Range(t_out) = {v \in parsed : IsKnown(v)}
       /\ \A i, j \in 1..Len(t_out) :
            i < j => FirstToken(tokens, t_out[i]) < FirstToken(tokens, t_out[j])
       /\ t_in.string =
            <<"h", "3", "-", "2", "9", ",", " ", "h", "3", "-", "2", "9", " ",
              ",", " ", "g", "a", "r", "b", "a", "g", "e", ",", "Q", "0", "4",
              "6">>
            => t_out = <<Draft29, Q046>>

\* The list "h3-29, h3-29 , garbage,Q046" was parsed.
C9_Witness ==
  /\ t_pc = "done"
  /\ t_in.op = "ParseQuicVersionVectorString"
  /\ t_in.tokens = <<ListTokens[1], ListTokens[2], ListTokens[3],
                     ListTokens[4]>>
  /\ t_out = <<Draft29, Q046>>

\* The strings of a sequence with the separator between them.
RECURSIVE JoinStrings(_, _)
JoinStrings(strings, separator) ==
  IF strings = <<>> THEN <<>>
  ELSE IF Len(strings) = 1 THEN strings[1]
  ELSE strings[1] \o separator \o JoinStrings(Tail(strings), separator)

\* What the claim says of a rendered vector.
TruncatedJoin(rendered, separator, n) ==
  IF Len(rendered) <= n + 1
  THEN JoinStrings(rendered, separator)
  ELSE JoinStrings(SubSeq(rendered, 1, n + 1), separator)
         \o separator \o <<".", ".", ".">>

\* C10: ParsedQuicVersionVectorToString(versions, separator, n) and
\* QuicVersionLabelVectorToString render every element joined by the
\* separator when there are at most n + 1 elements, and otherwise exactly
\* the first n + 1 elements followed by the separator and "...".
C10_Truncation ==
  /\ (t_pc = "done" /\ t_in.op = "ParsedQuicVersionVectorToString") =>
       t_out = TruncatedJoin(
                 [i \in 1..Len(t_in.versions) |->
                    ParsedQuicVersionToString(t_in.versions[i])],
                 t_in.separator, t_in.skip_after_nth_version)
  /\ (t_pc = "done" /\ t_in.op = "QuicVersionLabelVectorToString") =>
       t_out = TruncatedJoin(
                 [i \in 1..Len(t_in.versions) |->
                    QuicVersionLabelToString(LabelOf(t_in.versions[i]))],
                 t_in.separator, t_in.skip_after_nth_version)

\* Five elements with n = 2 gave "draft29,Q043,draft29,...".
C10_Witness ==
  /\ t_pc = "done"
  /\ t_in.op = "ParsedQuicVersionVectorToString"
  /\ t_in.versions = <<Draft29, Q043, Draft29, Q043, Draft29>>
  /\ t_in.separator = <<",">>
  /\ t_in.skip_after_nth_version = 2
  /\ t_out = <<"d", "r", "a", "f", "t", "2", "9", ",", "Q", "0", "4", "3", ",",
               "d", "r", "a", "f", "t", "2", "9", ",", ".", ".", ".">>

\* C11: every identity FilterSupportedVersions returns is a table entry
\* whose disable toggle is false, and an input identity without a toggle
\* branch (Unsupported, ReservedForNegotiation) raises QUIC_BUG and is left
\* out of the result.
C11_NoVersionWithoutToggle ==
  last.op = "FilterSupportedVersions" =>
    /\ \A i \in 1..Len(last.versions) :
         /\ last.versions[i] \in Table
         /\ ~disable_flag[ToggleOf(last.versions[i])]
    /\ \A i \in 1..Len(last.input) :
         last.input[i] \notin Table =>
           /\ quic_bug # NoBug
           /\ last.input[i] \notin Range(last.versions)

\* What the loop does instead: the result is the input without the table
\* entries whose toggle is true, so an identity without a toggle branch
\* stays in, and QUIC_BUG is raised exactly when the input holds one.
C11_FilterKeepsUnflagged ==
  last.op = "FilterSupportedVersions" =>
    /\ last.versions =
         SelectSeq(last.input,
                   LAMBDA v : v \in Table => ~disable_flag[ToggleOf(v)])
    /\ (quic_bug # NoBug) <=> (\E i \in 1..Len(last.input) :
                                last.input[i] \notin Table)

\* FilterSupportedVersions(<<ReservedForNegotiation, Q043>>) with Q043
\* disabled returned <<ReservedForNegotiation>> with the diagnostic.
C11_Witness ==
  /\ last.op = "FilterSupportedVersions"
  /\ last.input = <<ReservedForNegotiation, Q043>>
  /\ disable_flag["quic_disable_version_q043"]
  /\ last.versions = <<ReservedForNegotiation>>
  /\ quic_bug = "QUIC version has no flag protection"

\* A string of decimal digits only, with a digit other than 0.
IsPositiveNumeric(s) ==
  /\ s # <<>>
  /\ \A i \in 1..Len(s) : IsDigit(s[i])
  /\ \E i \in 1..Len(s) : s[i] # "0"

RECURSIVE StripZeros(_)
StripZeros(s) ==
  IF s # <<>> /\ Head(s) = "0" THEN StripZeros(Tail(s)) ELSE s

\* Digit strings of equal length: a <= b as numbers.
RECURSIVE DigitsLeq(_, _)
DigitsLeq(a, b) ==
  IF a = <<>> THEN TRUE
  ELSE IF Head(a) # Head(b) THEN Ord(Head(a)) < Ord(Head(b))
  ELSE DigitsLeq(Tail(a), Tail(b))

\* The number written by the digit string is at most INT_MAX.
FitsInt(s) ==
  LET d == StripZeros(s)
      max == IntToString(kint32max)
  IN Len(d) < Len(max) \/ (Len(d) = Len(max) /\ DigitsLeq(d, max))

\* What the numeric branch returns for the number a digit string writes.
NumericResult(s) ==
  LET valid == {n \in Range(SupportedTransportVersions) :
                  /\ StripZeros(s) = IntToString(n)
                  /\ ParsedQuicVersionIsValid(PROTOCOL_QUIC_CRYPTO, n)}
  IN IF valid = {} THEN UnsupportedQuicVersion
     ELSE ParsedQuicVersion(PROTOCOL_QUIC_CRYPTO, CHOOSE n \in valid : TRUE)

\* C12 as stated: ParseQuicVersionString of a purely numeric positive
\* string returns no TLS identity: the QUIC crypto identity of the number
\* when it is a supported transport version valid with that handshake
\* ("43" gives Q043), Unsupported otherwise, and it returns from the
\* numeric branch, before name, ALPN token and label are compared; the
\* empty string gives Unsupported.
C12_NumericAsStated ==
  (t_pc = "done" /\ t_in.op = "ParseQuicVersionString") =>
    /\ t_in.string = <<>> => t_out = UnsupportedQuicVersion
    /\ IsPositiveNumeric(t_in.string) =>
         /\ t_out.handshake_protocol # PROTOCOL_TLS1_3
         /\ t_out = NumericResult(t_in.string)
         /\ t_return \in {"number", "number_unsupported"}

\* C12 amended: the same for a purely numeric positive string whose number
\* is at most INT_MAX; a longer number is not taken as a number: it is
\* compared with the names, ALPN tokens and labels, matches none and gives
\* Unsupported by the final return.
C12_NumericInRange ==
  (t_pc = "done" /\ t_in.op = "ParseQuicVersionString") =>
    /\ t_in.string = <<>> =>
         (t_out = UnsupportedQuicVersion /\ t_return = "empty")
    /\ IsPositiveNumeric(t_in.string) =>
         /\ t_out.handshake_protocol # PROTOCOL_TLS1_3
         /\ t_out = NumericResult(t_in.string)
         /\ FitsInt(t_in.string) =>
              t_return \in {"number", "number_unsupported"}
         /\ ~FitsInt(t_in.string) =>
              (t_out = UnsupportedQuicVersion /\ t_return = "none")
    /\ t_in.string = <<"4", "3">> => t_out = Q043
    /\ t_in.string = <<"5", "1">> => t_out = UnsupportedQuicVersion

\* "43" was parsed to Q043 by the numeric branch.
C12_Witness ==
  /\ t_pc = "done"
  /\ t_in.op = "ParseQuicVersionString"
  /\ t_in.string = <<"4", "3">>
  /\ t_out = Q043
  /\ t_return = "number"

\* The values the claim gives for one identity.
ClaimedCapabilities(version) ==
  LET newer == version.transport_version > QUIC_VERSION_46
      tls == UsesTls(version)
  IN [KnowsWhichDecrypterToUse |-> newer,
      HasHeaderProtection |-> newer,
      SupportsRetry |-> newer,
      HasRetryIntegrityTag |-> tls,
      SendsVariableLengthPacketNumberInLongHeader |-> newer,
      AllowsVariableLengthConnectionIds |-> newer,
      SupportsClientConnectionIds |-> newer,
      HasLengthPrefixedConnectionIds |-> newer,
      SupportsGoogleAltSvcFormat |-> ~newer,
      HasHandshakeDone |-> tls,
      HasVarIntTransportParams |-> tls,
      AuthenticatesHandshakeConnectionIds |-> tls,
      UsesTls |-> tls]

\* C13: for every known identity the seven ordering predicates equal
\* transport_version > QUIC_VERSION_46 (false for Q043 and Q046, true for
\* Q050, T051, Draft29), SupportsGoogleAltSvcFormat is their negation and
\* the four handshake predicates equal UsesTls; this holds of the values a
\* call returns and of every known identity in every toggle state that
\* QuicEnableVersion / QuicDisableVersion calls reach.
C13_Capabilities ==
  /\ \A v \in Identities :
       IsKnown(v) => Capabilities(v) = ClaimedCapabilities(v)
  /\ \A v \in {Q043, Q046} :
       /\ ~HasLengthPrefixedConnectionIds(v)
       /\ SupportsGoogleAltSvcFormat(v)
       /\ ~HasHandshakeDone(v)
  /\ \A v \in {Q050, T051, Draft29} :
       /\ AllowsVariableLengthConnectionIds(v)
       /\ ~SupportsGoogleAltSvcFormat(v)
  /\ HasRetryIntegrityTag(T051) /\ ~HasRetryIntegrityTag(Q050)
  /\ (last.op = "Capabilities" /\ IsKnown(last.version)) =>
       /\ last.capabilities = ClaimedCapabilities(last.version)
       /\ quic_bug = NoBug

\* The predicates were asked of Q046 while Q046 is disabled and Q050 is
\* enabled: the legacy format is supported, nothing newer is.
C13_Witness ==
  /\ last.op = "Capabilities"
  /\ last.version = Q046
  /\ disable_flag["quic_disable_version_q046"]
  /\ ~disable_flag["quic_disable_version_q050"]
  /\ last.capabilities.SupportsGoogleAltSvcFormat
  /\ ~last.capabilities.HasHeaderProtection
  /\ ~last.capabilities.UsesTls

=============================================================================
